---- MODULE Spec2Model ----
(***************************************************************************)
(* A model of pydda.retrieval.multigrid.get_dd_wind_field_multigrid: the   *)
(* entry validation, the coverage / weight builder, the two-level          *)
(* multigrid cycle (relax, restrict, coarse solve, prolong) and the        *)
(* result masking.  One call of the function is one behaviour; pc is the   *)
(* position in the function body.                                          *)
(*                                                                         *)
(* Numbers.  Every field is a flattened sequence of integer numerators     *)
(* over one denominator, [den |-> d, num |-> <<...>>], so that linear      *)
(* interpolation is exact; nan is the set of its entries that are NaN.     *)
(* Coordinates are integers; coarse coordinates are midpoints, so every    *)
(* coordinate is kept doubled.                                             *)
(***************************************************************************)
EXTENDS Integers, Sequences, FiniteSets, TLC

(***************************************************************************)
(* Bounds of the model.                                                    *)
(***************************************************************************)
MaxGrids == 3
NZ == 4
NY == 4
NX == 4
MaxCycles == 3

(***************************************************************************)
(* Constants of the program.                                               *)
(***************************************************************************)
AllcloseAtol == 10
AllcloseRtolInv == 100000
RelaxSteps == 5
StepSize == 1
IterationsPerCycle == 50
WindBound == 5
DefaultMinBca == 30
DefaultMaxBca == 150

None == "None"
NaN == "NaN"

Abs(a) == IF a < 0 THEN -a ELSE a
Min(a, b) == IF a < b THEN a ELSE b
Max(a, b) == IF a < b THEN b ELSE a

\* F applied to the value of v, which is computed once.
Let(v, F(_)) == CHOOSE r \in {F(t) : t \in {v}} : TRUE

RECURSIVE GcdNat(_, _)
GcdNat(a, b) == IF b = 0 THEN a ELSE Let(a % b, LAMBDA r : GcdNat(b, r))

Gcd(a, b) == Let(<<Abs(a), Abs(b)>>, LAMBDA t : GcdNat(t[1], t[2]))

(***************************************************************************)
(* Grids.  A grid carries its coordinate arrays (0-based functions), its   *)
(* origin latitude, and whether the azimuth / elevation fields have been   *)
(* added to it.                                                            *)
(***************************************************************************)
Coords(x0, n) == [i \in 0..(n - 1) |-> x0 + i]

MakeGrid(xo, yo, zo, lat) ==
    [x |-> Coords(xo, NX), y |-> Coords(yo, NY), z |-> Coords(zo, NZ),
     origin_latitude |-> lat, annotated |-> FALSE]

\* np.allclose(a, b, atol=10): every |a - b| <= atol + rtol * |b|, rtol = 1e-5
AllClose(a, b) ==
    \A i \in DOMAIN a :
        AllcloseRtolInv * Abs(a[i] - b[i])
            <= AllcloseRtolInv * AllcloseAtol + Abs(b[i])

\* The first failure of the loop of lines 70-87, or "none".
RECURSIVE ConformanceFrom(_, _, _)
ConformanceFrom(G, prev_grid, n) ==
    IF n > Len(G) THEN "none"
    ELSE LET g == G[n] IN
         IF ~AllClose(g.x, prev_grid.x) THEN "x"
         ELSE IF ~AllClose(g.y, prev_grid.y) THEN "y"
         ELSE IF ~AllClose(g.z, prev_grid.z) THEN "z"
         ELSE IF ~(g.origin_latitude = prev_grid.origin_latitude)
              THEN "origin"
         ELSE ConformanceFrom(G, g, n + 1)

GridConformance(G) == ConformanceFrom(G, G[1], 1)

(***************************************************************************)
(* Fields.  A field of shape <<nc, nz, ny, nx>> is flattened in C order,   *)
(* as np.stack(...).flatten() does.                                        *)
(***************************************************************************)
Size(shape) == shape[1] * shape[2] * shape[3] * shape[4]

Flat(shape, c, k, y, x) ==
    ((c * shape[2] + k) * shape[3] + y) * shape[4] + x + 1

CompOf(shape, n) == (n - 1) \div (shape[2] * shape[3] * shape[4])
LevelOf(shape, n) == ((n - 1) \div (shape[3] * shape[4])) % shape[2]
RowOf(shape, n) == ((n - 1) \div shape[4]) % shape[3]
ColOf(shape, n) == (n - 1) % shape[4]

FineShape == <<3, NZ, NY, NX>>
LevelShape == <<1, NZ, NY, NX>>

\* The greatest divisor of d that divides every s[lo..hi].
RECURSIVE RangeGcd(_, _, _, _)
RangeGcd(s, lo, hi, d) ==
    IF d = 1 THEN 1
    ELSE IF lo = hi THEN Gcd(d, s[lo])
    ELSE Let(RangeGcd(s, lo, (lo + hi) \div 2, d),
             LAMBDA e : RangeGcd(s, (lo + hi) \div 2 + 1, hi, e))

\* The same numbers over the smallest common denominator.
Normalize(f) ==
    Let(f, LAMBDA v :
        Let(RangeGcd(v.num, 1, Len(v.num), v.den), LAMBDA g :
            IF g = 1 THEN v
            ELSE [v EXCEPT !.den = v.den \div g,
                           !.num = [n \in 1..Len(v.num) |-> v.num[n] \div g]]))

MakeField(shape, den, Val(_)) ==
    [den |-> den, shape |-> shape, nan |-> {},
     num |-> [n \in 1..Size(shape) |-> Val(n)]]

\* a - s * b, as in winds_new - step_size * fine_gradient
FieldAxpy(a, s, b) ==
    Let(<<a, b, Gcd(a.den, b.den)>>, LAMBDA t :
        Let(<<t[1].num, t[2].num, t[2].den \div t[3], t[1].den \div t[3]>>,
            LAMBDA u :
                Normalize([t[1] EXCEPT
                    !.den = t[1].den * u[3],
                    !.nan = t[1].nan \cup t[2].nan,
                    !.num = [n \in 1..Len(u[1]) |->
                                u[1][n] * u[3] - s * u[2][n] * u[4]]])))

FieldAdd(a, b) == FieldAxpy(a, -1, b)
FieldSub(a, b) == FieldAxpy(a, 1, b)

\* Equality of the numbers two fields hold (both are kept normalized).
FieldEq(a, b) == Normalize(a) = Normalize(b)

\* a = b + c, number for number
FieldIsSum(a, b, c) == FieldEq(a, FieldAxpy(b, -1, c))

IsZeroField(a) == a.nan = {} /\ \A n \in 1..Len(a.num) : a.num[n] = 0

(***************************************************************************)
(* Coarse coordinates: (f[:-1:2] + f[1::2]) / 2, kept doubled.             *)
(***************************************************************************)
CoarseLen(n) == n \div 2
Doubled(f) == [i \in DOMAIN f |-> 2 * f[i]]
CoarseDoubled(f) ==
    [i \in 0..(CoarseLen(Cardinality(DOMAIN f)) - 1) |-> f[2 * i] + f[2 * i + 1]]

(***************************************************************************)
(* scipy.interpolate.RegularGridInterpolator, method "linear",             *)
(* bounds_error=False.  Along one axis with nodes g, a query q falls in    *)
(* the interval i = clip(searchsorted(g, q) - 1, 0, len(g) - 2) and has    *)
(* the normalized distance (q - g[i]) / (g[i+1] - g[i]); with              *)
(* fill_value=None nothing confines that distance to [0, 1], so a query    *)
(* outside the nodes is extrapolated from the edge interval.               *)
(***************************************************************************)
AxisLen(g) == Cardinality(DOMAIN g)
AxisDen(g) == g[1] - g[0]

FindIndex(g, q) ==
    LET pos == Cardinality({i \in DOMAIN g : g[i] < q}) IN
    Max(0, Min(pos - 1, AxisLen(g) - 2))

OutOfBounds(g, q) == q < g[0] \/ q > g[AxisLen(g) - 1]

\* i: the interval; w[0], w[1]: the weights of its two nodes over AxisDen(g)
AxisWeights(g, q) ==
    LET i == FindIndex(g, q)
        sc == AxisDen(g) \div (g[i + 1] - g[i]) IN
    [i |-> i, w |-> <<(g[i + 1] - q) * sc, (q - g[i]) * sc>>,
     out |-> OutOfBounds(g, q)]

AxisTable(g, Q) == [j \in DOMAIN Q |-> AxisWeights(g, Q[j])]

Bit == {0, 1}

\* The interpolant at every query node, from the per-axis tables.
InterpolateWith(tz, ty, tx, f, shape, fill_value) ==
    LET At(n, a, b, e) ==
            Flat(f.shape, CompOf(shape, n), tz[LevelOf(shape, n)].i + a,
                 ty[RowOf(shape, n)].i + b, tx[ColOf(shape, n)].i + e)
        Val(n) ==
            LET Corner(a, b, e) ==
                    tz[LevelOf(shape, n)].w[a + 1] * ty[RowOf(shape, n)].w[b + 1]
                        * tx[ColOf(shape, n)].w[e + 1] * f.num[At(n, a, b, e)]
            IN Corner(0, 0, 0) + Corner(0, 0, 1) + Corner(0, 1, 0)
               + Corner(0, 1, 1) + Corner(1, 0, 0) + Corner(1, 0, 1)
               + Corner(1, 1, 0) + Corner(1, 1, 1)
        Outside(n) ==
            \/ tz[LevelOf(shape, n)].out
            \/ ty[RowOf(shape, n)].out
            \/ tx[ColOf(shape, n)].out
    IN [shape |-> shape,
        nan |-> IF fill_value = None /\ f.nan = {} THEN {}
                ELSE {n \in 1..Size(shape) :
                        \/ fill_value = NaN /\ Outside(n)
                        \/ \E a \in Bit, b \in Bit, e \in Bit :
                              At(n, a, b, e) \in f.nan},
        num |-> [n \in 1..Size(shape) |-> Val(n)]]

\* Mutant of Interpolate: fill_value is NaN whatever the caller passes.
InterpolateNaNOutside(src, f, qry, fill_value) ==
    LET shape == <<f.shape[1], AxisLen(qry[1]), AxisLen(qry[2]), AxisLen(qry[3])>>
        den == f.den * AxisDen(src[1]) * AxisDen(src[2]) * AxisDen(src[3])
    IN CHOOSE r \in
          {[den |-> den] @@ InterpolateWith(t[1], t[2], t[3], t[4], t[5], NaN) :
              t \in {<<AxisTable(src[1], qry[1]), AxisTable(src[2], qry[2]),
                       AxisTable(src[3], qry[3]), f, shape>>}} : TRUE

\* fill_value = None: extrapolate.  fill_value = NaN: NaN outside the nodes.
\* A NaN at a node of the query's cell makes the result NaN.
Interpolate(src, f, qry, fill_value) ==
    LET shape == <<f.shape[1], AxisLen(qry[1]), AxisLen(qry[2]), AxisLen(qry[3])>>
        den == f.den * AxisDen(src[1]) * AxisDen(src[2]) * AxisDen(src[3])
    IN CHOOSE r \in
          {[den |-> den] @@ InterpolateWith(t[1], t[2], t[3], t[4], t[5], fill_value) :
              t \in {<<AxisTable(src[1], qry[1]), AxisTable(src[2], qry[2]),
                       AxisTable(src[3], qry[3]), f, shape>>}} : TRUE

FineAxes(g) == <<Doubled(g.z), Doubled(g.y), Doubled(g.x)>>
CoarseAxes(g) == <<CoarseDoubled(g.z), CoarseDoubled(g.y), CoarseDoubled(g.x)>>


(***************************************************************************)
(* The inputs that come from outside this file.  They are fixed for one    *)
(* call: the validity masks of the radial velocities, the beam-crossing    *)
(* angles get_bca returns (in degrees here; the code compares radians,     *)
(* and the conversion is monotone), the arrays a caller may supply, the    *)
(* initial winds, the gradient cost_functions.grad_J returns and the       *)
(* point fmin_l_bfgs_b returns.                                            *)
(***************************************************************************)
MaskPatterns == {"valid", "patchy"}

\* Grids[i].fields[vel_name]['data'].mask at level k, row y, column x
Masked(pat, k, y, x) ==
    CASE pat = "valid" -> FALSE
      [] pat = "patchy" -> k = 0 \/ (k + y + x) % 3 = 0
      [] OTHER -> TRUE

BcaPatterns == {"split", "bad"}

\* get_bca(...)[y, x] for a pair of radars
BcaDeg(pat, y, x) ==
    CASE pat = "good" -> 90
      [] pat = "split" ->
            (CASE x = 0 -> 10 [] x = 1 -> 30 [] x = 2 -> 150 [] OTHER -> 170)
      [] OTHER -> 170

\* weights_obs[i][k, y, x], weights_bg[k, y, x], weights_model[m][k, y, x]
SuppliedObs(i, k, y, x) == (i + k + x) % 3
SuppliedBg(k, y, x) == (k + y + 1) % 3
SuppliedModel(m, k, y, x) == (m + k + x) % 2

InitPatterns == {"uniform", "ramp", "bump"}

\* np.stack([u_init, v_init, w_init]).flatten()
InitialWinds(pat) ==
    MakeField(FineShape, 1,
        LAMBDA n :
            CASE pat = "uniform" -> 2 - CompOf(FineShape, n)
              [] pat = "ramp" ->
                    (CASE CompOf(FineShape, n) = 0 -> ColOf(FineShape, n) - 1
                       [] CompOf(FineShape, n) = 1 ->
                            RowOf(FineShape, n) - LevelOf(FineShape, n)
                       [] OTHER -> 0)
              [] OTHER -> IF n = 1 THEN 2 ELSE 0)

GradOracles == {"zero", "unit", "damp"}

\* cost_functions.grad_J(winds_new, ...): an array of the shape of winds_new
GradJ(oracle, w) ==
    CASE oracle = "zero" -> [w EXCEPT !.num = [n \in 1..Len(w.num) |-> 0]]
      [] oracle = "unit" -> [w EXCEPT !.num = [n \in 1..Len(w.num) |-> w.den]]
      [] OTHER -> w

SolverOracles == {"same", "shift", "corner", "calm"}

Clip(v, lo, hi) == Max(lo, Min(v, hi))

\* fmin_l_bfgs_b(..., x0, bounds=[(-5, 5)] * n)[0]: a point inside the bounds
Minimizer(oracle, x0) ==
    LET Target(n) ==
            CASE oracle = "same" -> x0.num[n]
              [] oracle = "shift" -> x0.num[n] + x0.den
              [] oracle = "corner" -> x0.num[n] + (IF n = 1 THEN x0.den ELSE 0)
              [] OTHER -> 0
    IN [x0 EXCEPT !.num = [n \in 1..Len(x0.num) |->
            Clip(Target(n), -WindBound * x0.den, WindBound * x0.den)]]

WarnFlags == {0, 1, 2}

(***************************************************************************)
(* State.                                                                  *)
(***************************************************************************)
VARIABLES
    args,           \* the arguments of the call
    env,            \* what the collaborators return during the call
    Grids,          \* the caller's grid objects
    pc,             \* the position in the function body
    err,            \* the exception that ended the call, or "none"
    rad_no,         \* the radar the set-up loop of lines 168-196 is at
    weights, bg_weights, mod_weights,
    weights_coarse, bg_weights_coarse,
    winds, winds_new, fine_gradient,
    winds_coarse, residual, winds_coarse1, wind_add,
    iterations, warnflag, relax_i,
    result,         \* the masks of u, v, w in the returned fields
    hist            \* history: the cycles completed, the winds at the start
                    \* of the cycle, the phases the cycle has gone through

vars == <<args, env, Grids, pc, err, rad_no, weights, bg_weights, mod_weights,
          weights_coarse, bg_weights_coarse,
          winds, winds_new, fine_gradient, winds_coarse, residual,
          winds_coarse1, wind_add, iterations, warnflag, relax_i, result, hist>>

inputs == <<args, env>>
weightVars == <<weights, bg_weights, mod_weights>>
coarseVars == <<weights_coarse, bg_weights_coarse>>
cycleVars == <<winds, winds_new, fine_gradient, winds_coarse, residual,
               winds_coarse1, wind_add, iterations, warnflag, relax_i>>

Unset == <<>>

nRadars == Len(Grids)
Radars == 0..(nRadars - 1)
Levels == 0..(NZ - 1)
Rows == 0..(NY - 1)
Cols == 0..(NX - 1)

\* ~vrs[i][k].mask at a cell
Valid(i, k, y, x) == ~Masked(env.mask[i + 1], k, y, x)

BaseArgs ==
    [isList |-> TRUE, Cv |-> 0, storm |-> FALSE, Cmod |-> 0,
     model_fields |-> 0, refl_field |-> TRUE, vel_name |-> TRUE,
     weights_obs |-> None, weights_bg |-> None, weights_model |-> None,
     max_iterations |-> IterationsPerCycle,
     mask_outside_opt |-> FALSE, mask_w_outside_opt |-> TRUE,
     min_bca |-> DefaultMinBca, max_bca |-> DefaultMaxBca,
     u_init |-> "ramp"]

Pairs(n) == {p \in (0..(n - 1)) \X (0..(n - 1)) : p[1] < p[2]}

BaseEnv(n) ==
    [mask |-> [i \in 1..n |-> "valid"],
     bca |-> [p \in Pairs(n) |-> "good"],
     grad |-> "unit", solver |-> "same"]

SameGrids(n) == [i \in 1..n |-> MakeGrid(0, 0, 0, 36)]

\* grids whose x coordinates lie away from their y coordinates
ShiftedGrids(n) == [i \in 1..n |-> MakeGrid(8, 0, 0, 36)]

NoError == [type |-> "none", what |-> "none"]

InitRest ==
    /\ pc = "storm_check"
    /\ err = NoError
    /\ rad_no = 0
    /\ weights = Unset /\ bg_weights = Unset /\ mod_weights = Unset
    /\ weights_coarse = Unset /\ bg_weights_coarse = Unset
    /\ winds = Unset /\ winds_new = Unset /\ fine_gradient = Unset
    /\ winds_coarse = Unset /\ residual = Unset /\ winds_coarse1 = Unset
    /\ wind_add = Unset
    /\ iterations = 0 /\ warnflag = 99999 /\ relax_i = 0
    /\ result = Unset
    /\ hist = [cycles |-> 0, start |-> Unset, phases |-> <<>>]

\* raise type(...): the call ends; what names the statement that raised
Raise(type, what) == pc' = "raised" /\ err' = [type |-> type, what |-> what]

(***************************************************************************)
(* Entry validation, lines 60-141.                                         *)
(***************************************************************************)
CheckStormMotion ==
    /\ pc = "storm_check"
    /\ IF ~args.storm /\ args.Cv # 0
       THEN Raise("ValueError", "storm")
       ELSE pc' = "list_check" /\ err' = err
    /\ UNCHANGED <<inputs, Grids, rad_no, weightVars, coarseVars, cycleVars,
                   result, hist>>

CheckGridsIsList ==
    /\ pc = "list_check"
    /\ IF ~args.isList
       THEN Raise("ValueError", "list")
       ELSE pc' = "grid_check" /\ err' = err
    /\ UNCHANGED <<inputs, Grids, rad_no, weightVars, coarseVars, cycleVars,
                   result, hist>>

CheckGridConformance ==
    /\ pc = "grid_check"
    /\ IF Len(Grids) = 0
       THEN Raise("IndexError", "Grids[0]")
       ELSE IF GridConformance(Grids) # "none"
       THEN Raise("ValueError", GridConformance(Grids))
       ELSE pc' = "background" /\ err' = err
    /\ UNCHANGED <<inputs, Grids, rad_no, weightVars, coarseVars, cycleVars,
                   result, hist>>

\* lines 89-110: the sounding is interpolated to the grid levels
InterpolateBackground ==
    /\ pc = "background"
    /\ pc' = "field_names"
    /\ UNCHANGED <<inputs, Grids, err, rad_no, weightVars, coarseVars,
                   cycleVars, result, hist>>

\* lines 112-118: the defaults are looked up in pyart.config, and this file
\* imports no pyart
ParseFieldNames ==
    /\ pc = "field_names"
    /\ IF ~args.refl_field \/ ~args.vel_name
       THEN Raise("NameError", "pyart")
       ELSE pc' = "allocate" /\ err' = err
    /\ UNCHANGED <<inputs, Grids, rad_no, weightVars, coarseVars, cycleVars,
                   result, hist>>

Zeros(shape) == [n \in 1..Size(shape) |-> 0]
Ones(shape) == [n \in 1..Size(shape) |-> 1]

\* lines 119-136
AllocateWeights ==
    /\ pc = "allocate"
    /\ winds' = InitialWinds(args.u_init)
    /\ weights' = Zeros(<<nRadars, NZ, NY, NX>>)
    /\ bg_weights' = Zeros(LevelShape)
    /\ mod_weights' =
          IF args.model_fields # 0
          THEN [den |-> 1, shape |-> <<args.model_fields, NZ, NY, NX>>,
                nan |-> {}, num |-> Ones(<<args.model_fields, NZ, NY, NX>>)]
          ELSE [den |-> 1, shape |-> LevelShape, nan |-> {},
                num |-> Zeros(LevelShape)]
    /\ pc' = "model_check"
    /\ UNCHANGED <<inputs, Grids, err, rad_no, coarseVars, winds_new, fine_gradient,
                   winds_coarse, residual, winds_coarse1, wind_add,
                   iterations, warnflag, relax_i, result, hist>>

\* Mutant of CheckModelFields: the check comes after the radar set-up loop.
CheckModelFieldsLate ==
    /\ pc = "model_check"
    /\ IF args.model_fields = 0 /\ args.Cmod # 0
       THEN /\ Raise("ValueError", "Cmod")
            /\ Grids' = [i \in 1..Len(Grids) |-> [Grids[i] EXCEPT !.annotated = TRUE]]
            /\ rad_no' = nRadars
       ELSE /\ pc' = "radar_setup" /\ err' = err
            /\ UNCHANGED <<Grids, rad_no>>
    /\ UNCHANGED <<inputs, weightVars, coarseVars, cycleVars, result, hist>>

\* lines 138-141
CheckModelFields ==
    /\ pc = "model_check"
    /\ IF args.model_fields = 0 /\ args.Cmod # 0
       THEN Raise("ValueError", "Cmod")
       ELSE pc' = "radar_setup" /\ err' = err
    /\ UNCHANGED <<inputs, Grids, rad_no, weightVars, coarseVars, cycleVars,
                   result, hist>>

\* lines 168-196, one radar: the azimuth and elevation fields are added to
\* the caller's grid, and the radar's fields are resampled to the coarse grid
SetupRadar ==
    /\ pc = "radar_setup"
    /\ IF rad_no < nRadars
       THEN /\ Grids' = [Grids EXCEPT ![rad_no + 1].annotated = TRUE]
            /\ rad_no' = rad_no + 1
            /\ pc' = pc
       ELSE /\ pc' = "weights"
            /\ UNCHANGED <<Grids, rad_no>>
    /\ UNCHANGED <<inputs, err, weightVars, coarseVars, cycleVars, result,
                   hist>>


(***************************************************************************)
(* Coverage and weight builder, lines 198-262.                             *)
(***************************************************************************)
WShape == <<nRadars, NZ, NY, NX>>

\* bca[i, j] >= radians(min_bca) and bca[i, j] <= radians(max_bca)
InRange(p, y, x) ==
    /\ BcaDeg(env.bca[p], y, x) >= args.min_bca
    /\ BcaDeg(env.bca[p], y, x) <= args.max_bca

\* np.logical_or(bca[i, j] >= radians(min_bca), bca[i, j] <= radians(max_bca))
EitherBound(p, y, x) ==
    \/ BcaDeg(env.bca[p], y, x) >= args.min_bca
    \/ BcaDeg(env.bca[p], y, x) <= args.max_bca

\* lines 212-232 for the pair p = <<i, j>>, every level k
ObsAfterPair(W, p) ==
    [n \in 1..Len(W) |->
        LET r == CompOf(WShape, n)
            k == LevelOf(WShape, n)
            y == RowOf(WShape, n)
            x == ColOf(WShape, n)
        IN IF r # p[1] /\ r # p[2] THEN W[n]
           ELSE IF args.weights_obs = None
           THEN (IF Valid(r, k, y, x) /\ InRange(p, y, x) THEN W[n] + 1 ELSE W[n])
           ELSE SuppliedObs(r, k, y, x)]

\* lines 234-242 for the pair p = <<i, j>> at level k: level k is updated in
\* place through the view cur_array, which is then stored at index i
BgAfterLevel(B, p, k) ==
    LET i == p[1]
        Cur(y, x) ==
            IF Masked(env.mask[i + 1], k, y, x) THEN 0
            ELSE IF EitherBound(p, y, x) THEN 1
            ELSE B[Flat(LevelShape, 0, k, y, x)]
    IN [n \in 1..Len(B) |->
            LET l == LevelOf(LevelShape, n)
                y == RowOf(LevelShape, n)
                x == ColOf(LevelShape, n)
            IN IF args.weights_bg = None
               THEN (IF l = i \/ l = k THEN Cur(y, x) ELSE B[n])
               ELSE (IF l = i THEN SuppliedBg(i, y, x) ELSE B[n])]

RECURSIVE BgAfterPair(_, _, _)
BgAfterPair(B, p, k) ==
    IF k = NZ THEN B
    ELSE Let(BgAfterLevel(B, p, k), LAMBDA C : BgAfterPair(C, p, k + 1))

\* for i in range(n): for j in range(i + 1, n)
RECURSIVE PairsFrom(_, _, _)
PairsFrom(i, j, n) ==
    IF i >= n - 1 THEN <<>>
    ELSE IF j >= n THEN PairsFrom(i + 1, i + 2, n)
    ELSE <<<<i, j>>>> \o PairsFrom(i, j + 1, n)

PairOrder(n) == PairsFrom(0, 1, n)

\* the pairs of order taken in turn, from its n-th on
RECURSIVE ObsOver(_, _, _)
ObsOver(W, order, n) ==
    IF n > Len(order) THEN W
    ELSE Let(ObsAfterPair(W, order[n]), LAMBDA V : ObsOver(V, order, n + 1))

RECURSIVE BgOver(_, _, _)
BgOver(B, order, n) ==
    IF n > Len(order) THEN B
    ELSE Let(BgAfterPair(B, order[n], 0), LAMBDA C : BgOver(C, order, n + 1))

\* weights.sum(axis=0) at a cell of one level
Coverage(W, k, y, x) ==
    LET RECURSIVE Sum(_)
        Sum(i) == IF i = nRadars THEN 0
                  ELSE W[Flat(WShape, i, k, y, x)] + Sum(i + 1)
    IN Sum(0)

SeqMax(s) ==
    CHOOSE m \in {s[n] : n \in 1..Len(s)} : \A n \in 1..Len(s) : s[n] <= m

\* lines 245-257: 1 - (coverage_grade / coverage_grade.max()) / (len(Grids) + 1);
\* 0 / 0 is NaN
ModelWeights(W) ==
    LET shape == <<args.model_fields, NZ, NY, NX>> IN
    IF args.weights_model # None
    THEN [den |-> 1, shape |-> shape, nan |-> {},
          num |-> [n \in 1..Size(shape) |->
                     SuppliedModel(CompOf(shape, n), LevelOf(shape, n),
                                   RowOf(shape, n), ColOf(shape, n))]]
    ELSE Let([n \in 1..Size(LevelShape) |->
                 Coverage(W, LevelOf(LevelShape, n), RowOf(LevelShape, n),
                          ColOf(LevelShape, n))],
             LAMBDA cov : Let(SeqMax(cov), LAMBDA top :
                IF top = 0
                THEN [den |-> 1, shape |-> shape, nan |-> 1..Size(shape),
                      num |-> Zeros(shape)]
                ELSE Normalize(
                     [den |-> (nRadars + 1) * top, shape |-> shape, nan |-> {},
                      num |-> [n \in 1..Size(shape) |->
                                 (nRadars + 1) * top
                                   - cov[Flat(LevelShape, 0, LevelOf(shape, n),
                                              RowOf(shape, n),
                                              ColOf(shape, n))]]])))

\* Mutant of ClipWeights: the accumulated counts are kept.
NoClip(W) == W

\* line 262: weights[weights > 0] = 1
ClipWeights(W) == [n \in 1..Len(W) |-> IF W[n] > 0 THEN 1 ELSE W[n]]

\* lines 259-260, one radar
SingleObs ==
    [n \in 1..Size(WShape) |->
        IF Valid(0, LevelOf(WShape, n), RowOf(WShape, n), ColOf(WShape, n))
        THEN 1 ELSE 0]

\* Mutant of SingleBg: the background weight follows the validity mask.
SingleBgSame ==
    [n \in 1..Size(LevelShape) |->
        IF Valid(0, LevelOf(LevelShape, n), RowOf(LevelShape, n),
                 ColOf(LevelShape, n))
        THEN 1 ELSE 0]

SingleBg ==
    [n \in 1..Size(LevelShape) |->
        IF Valid(0, LevelOf(LevelShape, n), RowOf(LevelShape, n),
                 ColOf(LevelShape, n))
        THEN 0 ELSE 1]

BuildWeights ==
    /\ pc = "weights"
    /\ IF nRadars > 1
       THEN \E W \in {ObsOver(weights, PairOrder(nRadars), 1)} :
            /\ weights' = ClipWeights(W)
            /\ bg_weights' = BgOver(bg_weights, PairOrder(nRadars), 1)
            /\ mod_weights' = IF args.model_fields # 0 THEN ModelWeights(W)
                              ELSE mod_weights
       ELSE /\ weights' = ClipWeights(SingleObs)
            /\ bg_weights' = SingleBg
            /\ mod_weights' = mod_weights
    /\ pc' = "coarsen_weights"
    /\ UNCHANGED <<inputs, Grids, err, rad_no, coarseVars, cycleVars, result, hist>>


(***************************************************************************)
(* Lines 263-362: the weights and the model fields are resampled to the    *)
(* coarse grid and the loop variables are initialised.                     *)
(***************************************************************************)
\* a weight array as a field over the denominator 1
AsField(W, shape) == [den |-> 1, shape |-> shape, nan |-> {}, num |-> W]

\* f[c], as a field of one component
Component(f, c) ==
    [den |-> f.den, shape |-> <<1, f.shape[2], f.shape[3], f.shape[4]>>,
     nan |-> {n \in 1..(f.shape[2] * f.shape[3] * f.shape[4]) :
                n + c * f.shape[2] * f.shape[3] * f.shape[4] \in f.nan},
     num |-> [n \in 1..(f.shape[2] * f.shape[3] * f.shape[4]) |->
                f.num[n + c * f.shape[2] * f.shape[3] * f.shape[4]]]]

\* r[c, k, y, x] = f[c, k, x, y]
SwapLast(f) ==
    LET shape == <<f.shape[1], f.shape[2], f.shape[4], f.shape[3]>>
        From(n) == Flat(f.shape, CompOf(shape, n), LevelOf(shape, n),
                        ColOf(shape, n), RowOf(shape, n))
    IN [den |-> f.den, shape |-> shape,
        nan |-> {n \in 1..Size(shape) : From(n) \in f.nan},
        num |-> [n \in 1..Size(shape) |-> f.num[From(n)]]]

\* lines 266-269, 281: every radar's weights at the coarse nodes
WeightsCoarse(W, g) ==
    Normalize(Interpolate(FineAxes(g), AsField(W, WShape), CoarseAxes(g), None))

\* the array behind weights_interp when line 280 runs: the model weights of
\* the last model field (line 273), or the weights of the last radar (267)
LastInterpolated(W, M) ==
    IF args.model_fields # 0 THEN Component(M, args.model_fields - 1)
    ELSE Component(AsField(W, WShape), nRadars - 1)

\* line 280: weights_interp((zc_mgrid, xc_mgrid, yc_mgrid)) on the axes
\* (zf, yf, xf): the value at [k, y, x] is taken at level zc[k], at xc[x] on
\* the y axis and at yc[y] on the x axis
BgWeightsCoarse(W, M, g) ==
    Normalize(SwapLast(
        Interpolate(FineAxes(g), LastInterpolated(W, M),
                    <<CoarseAxes(g)[1], CoarseAxes(g)[3], CoarseAxes(g)[2]>>,
                    None)))

\* lines 263-283; line 276 stacks mod_weights_coarse inside the loop, so a
\* second model field appends to an array
CoarsenWeights ==
    /\ pc = "coarsen_weights"
    /\ IF args.model_fields > 1
       THEN /\ Raise("AttributeError", "append")
            /\ weights_coarse' = WeightsCoarse(weights, Grids[1])
            /\ UNCHANGED bg_weights_coarse
       ELSE /\ pc' = "model_setup" /\ err' = err
            /\ weights_coarse' = WeightsCoarse(weights, Grids[1])
            /\ bg_weights_coarse' = BgWeightsCoarse(weights, mod_weights, Grids[1])
    /\ UNCHANGED <<inputs, Grids, rad_no, weightVars, cycleVars, result, hist>>

\* lines 285-363; line 343 reads model_no, a name that is never bound
SetupModelFields ==
    /\ pc = "model_setup"
    /\ IF args.model_fields # 0
       THEN /\ Raise("NameError", "model_no")
            /\ UNCHANGED <<iterations, warnflag>>
       ELSE /\ pc' = "loop" /\ err' = err
            /\ iterations' = 0
            /\ warnflag' = 0
    /\ UNCHANGED <<inputs, Grids, rad_no, weightVars, coarseVars, winds,
                   winds_new,
                   fine_gradient, winds_coarse, residual, winds_coarse1,
                   wind_add, relax_i, result, hist>>

(***************************************************************************)
(* The multigrid cycle, lines 364-478.                                     *)
(***************************************************************************)
\* Mutant of LoopTest: the loop also ends when the coarse solver reports a
\* nonzero warnflag.
LoopTestAbortOnFlag ==
    /\ pc = "loop"
    /\ IF iterations < args.max_iterations /\ warnflag = 0
       THEN /\ winds_new' = winds
            /\ relax_i' = 0
            /\ hist' = [hist EXCEPT !.start = winds, !.phases = <<>>]
            /\ pc' = "relax"
       ELSE /\ pc' = "assemble"
            /\ UNCHANGED <<winds_new, relax_i, hist>>
    /\ UNCHANGED <<inputs, Grids, err, rad_no, weightVars, coarseVars, winds,
                   fine_gradient,
                   winds_coarse, residual, winds_coarse1, wind_add,
                   iterations, warnflag, result>>

\* line 364 and, on entry to the body, lines 365-368
LoopTest ==
    /\ pc = "loop"
    /\ IF iterations < args.max_iterations
       THEN /\ winds_new' = winds
            /\ relax_i' = 0
            /\ hist' = [hist EXCEPT !.start = winds, !.phases = <<>>]
            /\ pc' = "relax"
       ELSE /\ pc' = "assemble"
            /\ UNCHANGED <<winds_new, relax_i, hist>>
    /\ UNCHANGED <<inputs, Grids, err, rad_no, weightVars, coarseVars, winds,
                   fine_gradient,
                   winds_coarse, residual, winds_coarse1, wind_add,
                   iterations, warnflag, result>>

\* Mutant of RelaxStep: the for loop makes one pass fewer.
RelaxStepShort ==
    /\ pc = "relax"
    /\ relax_i < RelaxSteps - 1
    /\ fine_gradient' = GradJ(env.grad, winds_new)
    /\ winds_new' = FieldAxpy(winds_new, StepSize, fine_gradient')
    /\ relax_i' = relax_i + 1
    /\ pc' = IF relax_i + 1 < RelaxSteps - 1 THEN "relax" ELSE "restrict"
    /\ hist' = [hist EXCEPT !.phases = Append(@, "RELAX")]
    /\ UNCHANGED <<inputs, Grids, err, rad_no, weightVars, coarseVars, winds,
                   winds_coarse,
                   residual, winds_coarse1, wind_add, iterations, warnflag,
                   result>>

\* lines 371-378, one pass of the for loop
RelaxStep ==
    /\ pc = "relax"
    /\ relax_i < RelaxSteps
    /\ fine_gradient' = GradJ(env.grad, winds_new)
    /\ winds_new' = FieldAxpy(winds_new, StepSize, fine_gradient')
    /\ relax_i' = relax_i + 1
    /\ pc' = IF relax_i + 1 < RelaxSteps THEN "relax" ELSE "restrict"
    /\ hist' = [hist EXCEPT !.phases = Append(@, "RELAX")]
    /\ UNCHANGED <<inputs, Grids, err, rad_no, weightVars, coarseVars, winds,
                   winds_coarse,
                   residual, winds_coarse1, wind_add, iterations, warnflag,
                   result>>

\* lines 383-419.  The restricted gradient is used for its NaN mask only:
\* masked_where(isnan(u_gcoarse), u_coarse) holds the data of u_coarse
Restrict ==
    /\ pc = "restrict"
    /\ winds_coarse' =
          Normalize(Interpolate(FineAxes(Grids[1]), winds_new,
                                CoarseAxes(Grids[1]), None))
    /\ residual' = winds_coarse'
    /\ pc' = "coarse_solve"
    /\ hist' = [hist EXCEPT !.phases = Append(@, "RESTRICT")]
    /\ UNCHANGED <<inputs, Grids, err, rad_no, weightVars, coarseVars, winds,
                   winds_new,
                   fine_gradient, winds_coarse1, wind_add, iterations,
                   warnflag, relax_i, result>>

\* lines 421-457
CoarseSolve ==
    /\ pc = "coarse_solve"
    /\ winds_coarse1' = Minimizer(env.solver, winds_coarse)
    /\ \E flag \in WarnFlags : warnflag' = flag
    /\ iterations' = iterations + IterationsPerCycle
    /\ pc' = "prolong"
    /\ hist' = [hist EXCEPT !.phases = Append(@, "COARSE_SOLVE")]
    /\ UNCHANGED <<inputs, Grids, err, rad_no, weightVars, coarseVars, winds,
                   winds_new,
                   fine_gradient, winds_coarse, residual, wind_add, relax_i,
                   result>>

\* Mutant of Correction: the coarse solution itself is resampled.
CorrectionOfSolution(coarse1, coarse, g) ==
    Normalize(Interpolate(CoarseAxes(g), coarse1, FineAxes(g), None))

\* lines 461-473: the correction, resampled to the fine grid
Correction(coarse1, coarse, g) ==
    Normalize(Interpolate(CoarseAxes(g), FieldSub(coarse1, coarse),
                          FineAxes(g), None))

\* lines 475-478: winds[c] += masked_where(isnan(add), add); the code never
\* gets a NaN here, the correction being finite and extrapolated
AddCorrection(w, add) == FieldAdd(w, add)

Prolong ==
    /\ pc = "prolong"
    /\ wind_add' = Correction(winds_coarse1, winds_coarse, Grids[1])
    /\ winds' = AddCorrection(winds, wind_add')
    /\ hist' = [hist EXCEPT !.cycles = hist.cycles + 1,
                            !.phases = Append(@, "PROLONG")]
    /\ pc' = "loop"
    /\ UNCHANGED <<inputs, Grids, err, rad_no, weightVars, coarseVars,
                   winds_new,
                   fine_gradient, winds_coarse, residual, winds_coarse1,
                   iterations, warnflag, relax_i, result>>

(***************************************************************************)
(* Result assembly, lines 481-526.                                         *)
(***************************************************************************)
\* np.sum(weights, axis=0) + np.sum(mod_weights, axis=0) < 1 at a cell;
\* a comparison with NaN is False
BelowOne(W, M, k, y, x) ==
    LET RECURSIVE ModSum(_)
        ModSum(m) == IF m = M.shape[1] THEN 0
                     ELSE M.num[Flat(M.shape, m, k, y, x)] + ModSum(m + 1)
    IN IF \E m \in 0..(M.shape[1] - 1) : Flat(M.shape, m, k, y, x) \in M.nan
       THEN FALSE
       ELSE Coverage(W, k, y, x) * M.den + ModSum(0) < M.den

WhereMask(W, M) ==
    [n \in 1..Size(LevelShape) |->
        BelowOne(W, M, LevelOf(LevelShape, n), RowOf(LevelShape, n),
                 ColOf(LevelShape, n))]

NoMask == [n \in 1..Size(LevelShape) |-> FALSE]

\* lines 491-497
MaskUV(W, M, mask_outside_opt) ==
    IF mask_outside_opt THEN WhereMask(W, M) ELSE NoMask

\* Mutant of MaskW: w is masked under mask_w_outside_opt only.
MaskWOnly(W, M, mask_outside_opt, mask_w_outside_opt) ==
    IF mask_w_outside_opt THEN WhereMask(W, M) ELSE NoMask

MaskW(W, M, mask_outside_opt, mask_w_outside_opt) ==
    IF mask_outside_opt \/ mask_w_outside_opt THEN WhereMask(W, M) ELSE NoMask

Assemble ==
    /\ pc = "assemble"
    /\ result' =
          [winds |-> winds,
           u_mask |-> MaskUV(weights, mod_weights, args.mask_outside_opt),
           v_mask |-> MaskUV(weights, mod_weights, args.mask_outside_opt),
           w_mask |-> MaskW(weights, mod_weights, args.mask_outside_opt,
                            args.mask_w_outside_opt),
           grids |-> nRadars]
    /\ pc' = "done"
    /\ UNCHANGED <<inputs, Grids, err, rad_no, weightVars, coarseVars,
                   cycleVars, hist>>

Next ==
    \/ CheckStormMotion
    \/ CheckGridsIsList
    \/ CheckGridConformance
    \/ InterpolateBackground
    \/ ParseFieldNames
    \/ AllocateWeights
    \/ CheckModelFields
    \/ SetupRadar
    \/ BuildWeights
    \/ CoarsenWeights
    \/ SetupModelFields
    \/ LoopTest
    \/ RelaxStep
    \/ Restrict
    \/ CoarseSolve
    \/ Prolong
    \/ Assemble


(***************************************************************************)
(* Specifications.  Each draws the call's inputs from a family that        *)
(* exercises one part of the function; all run the whole function.         *)
(***************************************************************************)
Axes == {"x", "y", "z"}
Offsets == {0, 8, 16}
Latitudes == {36, 37}

GridLayouts(n) ==
    {[i \in 1..n |-> MakeGrid(IF ax = "x" THEN o[i] ELSE 0,
                              IF ax = "y" THEN o[i] ELSE 0,
                              IF ax = "z" THEN o[i] ELSE 0, 36)] :
        ax \in Axes, o \in [1..n -> Offsets]}
    \cup {[i \in 1..n |-> MakeGrid(0, 0, 0, l[i])] : l \in [1..n -> Latitudes]}

\* Validation: the grids' coordinates and the configuration vary.
InitValidate ==
    /\ \E n \in 0..MaxGrids, isList \in BOOLEAN :
        /\ Grids \in (IF isList THEN GridLayouts(n) ELSE {SameGrids(n)})
        /\ env = BaseEnv(n)
        /\ \E vort \in {<<0, FALSE>>, <<1, FALSE>>, <<1, TRUE>>},
              model \in {<<0, 0>>, <<1, 0>>, <<1, 1>>, <<1, 2>>},
              names \in {<<TRUE, TRUE>>, <<FALSE, TRUE>>, <<TRUE, FALSE>>} :
            args = [BaseArgs EXCEPT !.isList = isList,
                                    !.Cv = vort[1], !.storm = vort[2],
                                    !.Cmod = model[1], !.model_fields = model[2],
                                    !.refl_field = names[1], !.vel_name = names[2]]
    /\ InitRest

\* Masks of n radars: the first, the second and the last radar vary (every
\* assignment when n <= 3).
MaskLayouts(n) ==
    {[i \in 1..n |-> IF i = 1 THEN l[1] ELSE IF i = n THEN l[2]
                     ELSE IF i = 2 THEN l[3] ELSE "valid"] :
        l \in [1..3 -> MaskPatterns]}

\* Beam-crossing angles of the pairs of n radars: the pair of the first and
\* the last radar, the other pairs of the first radar and the remaining
\* pairs vary (every assignment when n <= 3).
BcaLayouts(n) ==
    {[p \in Pairs(n) |-> IF p = <<0, n - 1>> THEN l[1]
                         ELSE IF p[1] = 0 THEN l[2] ELSE l[3]] :
        l \in [1..3 -> BcaPatterns]}

\* Weights: the masks, the beam-crossing angles and the supplied arrays vary
\* in calls that run no cycle; the masking options vary in calls that run one.
InitWeights ==
    /\ \/ /\ \E n \in 1..MaxGrids :
                /\ Grids = SameGrids(n)
                /\ \E m \in MaskLayouts(n), b \in BcaLayouts(n) :
                      env = [BaseEnv(n) EXCEPT !.mask = m, !.bca = b]
          /\ \E wo \in {None, "supplied"}, wb \in {None, "supplied"},
                model \in {<<0, None>>, <<1, None>>, <<1, "supplied">>} :
                args = [BaseArgs EXCEPT !.weights_obs = wo, !.weights_bg = wb,
                                        !.model_fields = model[1],
                                        !.weights_model = model[2],
                                        !.Cmod = model[1],
                                        !.max_iterations = 0]
       \/ /\ \E n \in 1..2 :
                /\ Grids = SameGrids(n)
                /\ \E m \in MaskLayouts(n), b \in BcaLayouts(n) :
                      env = [BaseEnv(n) EXCEPT !.mask = m, !.bca = b]
          /\ \E model \in 0..1, mo \in BOOLEAN, mw \in BOOLEAN :
                args = [BaseArgs EXCEPT !.model_fields = model,
                                        !.Cmod = model,
                                        !.mask_outside_opt = mo,
                                        !.mask_w_outside_opt = mw]
    /\ InitRest

IterationBudgets ==
    {m \in (-IterationsPerCycle)..(IterationsPerCycle * MaxCycles) :
        m % IterationsPerCycle \in {0, 1, IterationsPerCycle - 1}}

\* Cycles: the iteration budget varies for one choice of the initial winds,
\* the gradient and the coarse solution, and these vary for budgets of one
\* and two cycles; the masks and the coarse solution vary on grids whose x
\* and y coordinates differ.
InitCycle ==
    /\ \/ /\ \E n \in 1..2 : Grids = SameGrids(n) /\ env = BaseEnv(n)
          /\ \E mi \in IterationBudgets :
                args = [BaseArgs EXCEPT !.max_iterations = mi]
       \/ /\ Grids = SameGrids(1)
          /\ \E gr \in GradOracles, so \in SolverOracles :
                env = [BaseEnv(1) EXCEPT !.grad = gr, !.solver = so]
          /\ \E ui \in InitPatterns, c \in 1..2 :
                args = [BaseArgs EXCEPT !.u_init = ui,
                                        !.max_iterations = c * IterationsPerCycle]
       \/ /\ \E n \in 1..2 :
                /\ Grids = ShiftedGrids(n)
                /\ \E m \in MaskLayouts(n), so \in SolverOracles :
                      env = [BaseEnv(n) EXCEPT !.mask = m, !.solver = so]
          /\ args = BaseArgs
    /\ InitRest

SpecValidate == InitValidate /\ [][Next]_vars
SpecWeights == InitWeights /\ [][Next]_vars
SpecCycle == InitCycle /\ [][Next]_vars

Init == InitValidate \/ InitWeights \/ InitCycle
Spec == Init /\ [][Next]_vars


(***************************************************************************)
(* Claims.                                                                 *)
(***************************************************************************)
AfterValidation ==
    {"background", "field_names", "allocate", "model_check", "radar_setup",
     "weights", "coarsen_weights", "model_setup", "loop", "relax", "restrict",
     "coarse_solve", "prolong", "assemble", "done"}

AfterWeights ==
    {"coarsen_weights", "model_setup", "loop", "relax", "restrict",
     "coarse_solve", "prolong", "assemble", "done"}

InCycle == {"relax", "restrict", "coarse_solve", "prolong"}

\* two grids differ in some x, y or z coordinate by more than the tolerance
Differ(g, h) ==
    \/ \E i \in DOMAIN g.x : Abs(g.x[i] - h.x[i]) > AllcloseAtol
    \/ \E i \in DOMAIN g.y : Abs(g.y[i] - h.y[i]) > AllcloseAtol
    \/ \E i \in DOMAIN g.z : Abs(g.z[i] - h.z[i]) > AllcloseAtol

GridErrors == {"x", "y", "z", "origin"}

\* C1: whenever some two grids of the list, neighbours or not, differ in a
\* coordinate by more than 10 the call fails with a ValueError of the grid
\* check, and a list of identical grids passes the check.
C1_AnyPairBeyondToleranceFails ==
    /\ (args.isList /\ pc \in AfterValidation)
          => \A i, j \in 1..Len(Grids) : ~Differ(Grids[i], Grids[j])
    /\ (pc = "raised" /\ err.what \in GridErrors)
          => \E i, j \in 1..Len(Grids) : Grids[i] # Grids[j]

\* What the check does establish: neighbours in the list are allclose.
NeighboursConform ==
    (args.isList /\ pc \in AfterValidation)
        => \A i \in 1..(Len(Grids) - 1) :
              /\ AllClose(Grids[i + 1].x, Grids[i].x)
              /\ AllClose(Grids[i + 1].y, Grids[i].y)
              /\ AllClose(Grids[i + 1].z, Grids[i].z)
              /\ Grids[i + 1].origin_latitude = Grids[i].origin_latitude

ConfigErrors == {"storm", "list", "Cmod"} \cup GridErrors

\* no grid has got its azimuth / elevation fields, no weight has been built,
\* nothing has been resampled to the coarse grid, no cycle has started
Untouched ==
    /\ \A i \in 1..Len(Grids) : ~Grids[i].annotated
    /\ rad_no = 0
    /\ weights \in {Unset, Zeros(WShape)}
    /\ bg_weights \in {Unset, Zeros(LevelShape)}
    /\ weights_coarse = Unset /\ bg_weights_coarse = Unset
    /\ winds_new = Unset /\ winds_coarse = Unset /\ wind_add = Unset
    /\ iterations = 0
    /\ hist.cycles = 0 /\ hist.phases = <<>>

\* one of the four configuration defects is present in the arguments
Defect ==
    \/ ~args.storm /\ args.Cv # 0
    \/ ~args.isList
    \/ Len(Grids) > 0 /\ GridConformance(Grids) # "none"
    \/ args.model_fields = 0 /\ args.Cmod # 0

\* C2: each of the four configuration errors is a ValueError, and when it is
\* raised no grid has been modified, no weight built, nothing coarsened and
\* no cycle started; a call with such a defect never gets to that work.
C2_ConfigErrorsBeforeComputation ==
    /\ err.what \in ConfigErrors => err.type = "ValueError" /\ Untouched
    /\ Defect => Untouched

C2_Witness ==
    /\ pc = "raised" /\ err = [type |-> "ValueError", what |-> "Cmod"]
    /\ Len(Grids) = 2
    /\ weights = Zeros(WShape)

\* ceil(max_iterations / 50), and 0 for a budget that is not positive
ExpectedCycles(m) == IF m <= 0 THEN 0 ELSE (m + 49) \div 50

\* C3: the loop ends on the iteration budget alone: the counter grows by 50
\* per cycle from 0, exactly ceil(max_iterations / 50) cycles run, whatever
\* warnflag values the coarse solver returns.
C3_CyclesByBudget ==
    /\ pc \in {"assemble", "done"}
          => hist.cycles = ExpectedCycles(args.max_iterations)
    /\ pc \in InCycle => hist.cycles < ExpectedCycles(args.max_iterations)
    /\ pc \in InCycle \cup {"loop", "assemble", "done"}
          => iterations = 50 * hist.cycles + (IF pc = "prolong" THEN 50 ELSE 0)

C3_Witness ==
    /\ pc = "done"
    /\ args.max_iterations = 101
    /\ hist.cycles = 3
    /\ warnflag = 2

FullCycle ==
    <<"RELAX", "RELAX", "RELAX", "RELAX", "RELAX",
      "RESTRICT", "COARSE_SOLVE", "PROLONG">>

\* C4: in every cycle the phases run in the order RELAX (5 unit steps),
\* RESTRICT, COARSE_SOLVE, PROLONG, each once; a cycle starts only after the
\* PROLONG of the one before, and assembly only after the last PROLONG.
C4_PhaseOrder ==
    /\ Len(hist.phases) <= 8 /\ hist.phases = SubSeq(FullCycle, 1, Len(hist.phases))
    /\ pc = "relax" => Len(hist.phases) = relax_i /\ relax_i < 5
    /\ pc = "restrict" => Len(hist.phases) = 5 /\ relax_i = 5
    /\ pc = "coarse_solve" => Len(hist.phases) = 6
    /\ pc = "prolong" => Len(hist.phases) = 7
    /\ pc \in {"loop", "assemble", "done"}
          => hist.phases = (IF hist.cycles = 0 THEN <<>> ELSE FullCycle)
    /\ (pc \in {"relax", "restrict"} /\ env.grad = "unit")
          => FieldEq(winds_new,
                     FieldAxpy(hist.start, relax_i, GradJ("unit", hist.start)))

C4_Witness ==
    /\ pc = "assemble"
    /\ hist.cycles = 2
    /\ hist.phases = FullCycle
    /\ env.grad = "unit"

\* C5: at the end of every cycle the fine wind field is the relaxed field of
\* that cycle (the start field after the 5 unit steps) plus the prolonged
\* coarse correction, so the relaxation is carried into the next cycle.
C5_RelaxationKept ==
    (pc = "loop" /\ hist.cycles > 0) => FieldIsSum(winds, winds_new, wind_add)

\* What the cycle does establish: the correction is added to the field the
\* cycle started from; winds_new is a copy that is dropped.
CorrectionOnStart ==
    (pc = "loop" /\ hist.cycles > 0) => FieldIsSum(winds, hist.start, wind_add)

\* a fine node lies outside the coarse nodes of its axis
FineOutsideCoarse(g) ==
    \E a \in 1..3 :
        \E i \in DOMAIN FineAxes(g)[a] :
            OutOfBounds(CoarseAxes(g)[a], FineAxes(g)[a][i])

\* C6: when the coarse solve returns its input, the prolonged correction is
\* zero at every fine cell, the cells outside the coarse nodes included, and
\* PROLONG leaves the fine wind field as it was.
C6_ZeroCorrectionRoundTrip ==
    [][(pc = "prolong" /\ FieldEq(winds_coarse1, winds_coarse))
          => (IsZeroField(wind_add') /\ winds' = winds)]_vars

C6_Witness ==
    /\ pc = "loop" /\ hist.cycles > 0
    /\ FieldEq(winds_coarse1, winds_coarse)
    /\ ~IsZeroField(winds_coarse)
    /\ env.solver = "same"
    /\ FineOutsideCoarse(Grids[1])
    /\ IsZeroField(wind_add)
    /\ winds = hist.start

PairOf(i, j) == IF i < j THEN <<i, j>> ELSE <<j, i>>

Rotate(s, r) == [m \in 1..Len(s) |-> s[((m - 1 + r) % Len(s)) + 1]]
Reverse(s) == [m \in 1..Len(s) |-> s[Len(s) + 1 - m]]

\* orders in which the pairs can be visited: the rotations of the loop's
\* order and their reversals (every order, for up to three pairs)
PairOrders(n) ==
    {Rotate(PairOrder(n), r) : r \in 0..(Len(PairOrder(n)) - 1)}
    \cup {Reverse(Rotate(PairOrder(n), r)) : r \in 0..(Len(PairOrder(n)) - 1)}

\* radar r is valid at the cell and crosses some other radar's beam in range
Covered(r, k, y, x) ==
    /\ Valid(r, k, y, x)
    /\ \E j \in Radars \ {r} : InRange(PairOf(r, j), y, x)

\* C7: with two or more radars and no supplied observation weights every
\* observation weight is 0 or 1, and is 1 exactly where the radar is valid
\* and in range with some other radar, whatever the order of the pairs.
C7_ObsWeightsIndicator ==
    (nRadars >= 2 /\ args.weights_obs = None /\ pc \in AfterWeights) =>
        /\ \A n \in 1..Size(WShape) :
              weights[n] =
                 (IF Covered(CompOf(WShape, n), LevelOf(WShape, n),
                             RowOf(WShape, n), ColOf(WShape, n))
                  THEN 1 ELSE 0)
        /\ pc = "coarsen_weights" =>
              \A o \in PairOrders(nRadars) :
                 \E V \in {ObsOver(Zeros(WShape), o, 1)} :
                    \A n \in 1..Size(WShape) : (V[n] > 0) <=> (weights[n] = 1)

C7_Witness ==
    /\ pc = "coarsen_weights"
    /\ nRadars = 3 /\ args.weights_obs = None
    /\ env.bca[<<0, 1>>] = "split" /\ env.bca[<<0, 2>>] = "split"
    /\ env.mask[1] = "patchy"
    /\ ObsOver(Zeros(WShape), PairOrder(3), 1)[Flat(WShape, 0, 1, 0, 1)] = 2
    /\ weights[Flat(WShape, 0, 1, 0, 1)] = 1
    /\ weights[Flat(WShape, 0, 0, 0, 1)] = 0

\* C8: with one grid the observation weight is the validity mask of the
\* radar's velocity field and the background weight is its complement.
C8_SingleRadarFallback ==
    (nRadars = 1 /\ pc \in AfterWeights) =>
        \A k \in Levels, y \in Rows, x \in Cols :
            /\ weights[Flat(WShape, 0, k, y, x)]
                  = (IF Valid(0, k, y, x) THEN 1 ELSE 0)
            /\ weights[Flat(WShape, 0, k, y, x)]
                  + bg_weights[Flat(LevelShape, 0, k, y, x)] = 1

C8_Witness ==
    /\ pc = "coarsen_weights"
    /\ nRadars = 1 /\ env.mask[1] = "patchy"
    /\ weights[Flat(WShape, 0, 0, 0, 0)] = 0
    /\ bg_weights[Flat(LevelShape, 0, 0, 0, 0)] = 1
    /\ weights[Flat(WShape, 0, 1, 0, 1)] = 1
    /\ bg_weights[Flat(LevelShape, 0, 1, 0, 1)] = 0

\* C9: with two or more radars and no supplied background weights, the
\* background weight at level k is 1 where the first radar of some evaluated
\* pair is masked at that cell of level k, and 0 elsewhere.
C9_BackgroundWhereInvalid ==
    (nRadars >= 2 /\ args.weights_bg = None /\ pc \in AfterWeights) =>
        \A k \in Levels, y \in Rows, x \in Cols :
            bg_weights[Flat(LevelShape, 0, k, y, x)] =
                (IF \E p \in Pairs(nRadars) : ~Valid(p[1], k, y, x)
                 THEN 1 ELSE 0)

\* C10: a supplied weight array is the array the rest of the call uses,
\* entry for entry, for any number of radars.
C10_SuppliedWeightsVerbatim ==
    pc \in AfterWeights =>
        /\ args.weights_obs # None =>
              \A r \in Radars, k \in Levels, y \in Rows, x \in Cols :
                 weights[Flat(WShape, r, k, y, x)] = SuppliedObs(r, k, y, x)
        /\ args.weights_bg # None =>
              \A k \in Levels, y \in Rows, x \in Cols :
                 bg_weights[Flat(LevelShape, 0, k, y, x)] = SuppliedBg(k, y, x)
        /\ args.weights_model # None =>
              \A m \in 0..(args.model_fields - 1),
                 k \in Levels, y \in Rows, x \in Cols :
                 /\ Flat(mod_weights.shape, m, k, y, x) \notin mod_weights.nan
                 /\ mod_weights.num[Flat(mod_weights.shape, m, k, y, x)]
                       = SuppliedModel(m, k, y, x) * mod_weights.den

\* the counts of lines 211-232 (the mask of line 259 for one radar), as
\* line 245 sums them, before the clip of line 262
AccumulatedObs ==
    IF nRadars > 1 THEN ObsOver(Zeros(WShape), PairOrder(nRadars), 1)
    ELSE SingleObs

\* weights.sum(axis=0), cell by cell
CoverageOf(W) ==
    [n \in 1..Size(LevelShape) |->
        Coverage(W, LevelOf(LevelShape, n), RowOf(LevelShape, n),
                 ColOf(LevelShape, n))]

\* every model weight is defined and is 1 - c / (nRadars + 1), c = cov / top
\* (c = 0 where cov = 0)
ModelWeightIs(cov, top) ==
    \A m \in 0..(args.model_fields - 1), k \in Levels, y \in Rows, x \in Cols :
        \E cell \in {Flat(mod_weights.shape, m, k, y, x)},
           c \in {cov[Flat(LevelShape, 0, k, y, x)]},
           t \in {IF top = 0 THEN 1 ELSE top} :
            /\ cell \notin mod_weights.nan
            /\ mod_weights.num[cell] * (nRadars + 1) * t
                  = mod_weights.den * ((nRadars + 1) * t - c)
            /\ c = 0 => mod_weights.num[cell] = mod_weights.den

ModelWeightsBuilt ==
    /\ nRadars >= 2
    /\ args.model_fields # 0 /\ args.weights_model = None
    /\ pc \in {"coarsen_weights", "model_setup"}

\* C11: with two or more radars, model fields and no supplied model weights,
\* the model weight of every cell is defined and equals 1 - c / (nRadars + 1),
\* c the cell's coverage normalized to [0, 1]; it is 1 where no radar covers
\* the cell.
C11_ModelWeightByCoverage ==
    ModelWeightsBuilt =>
        \E cov \in {CoverageOf(AccumulatedObs)} :
            ModelWeightIs(cov, SeqMax(cov))

\* What the builder does establish: the formula, when some cell is covered.
ModelWeightWhereCovered ==
    ModelWeightsBuilt =>
        \E cov \in {CoverageOf(AccumulatedObs)} :
            SeqMax(cov) > 0 => ModelWeightIs(cov, SeqMax(cov))

\* the sum of the model weights of a cell, over mod_weights.den
ModelSum(k, y, x) ==
    LET RECURSIVE S(_)
        S(m) == IF m = mod_weights.shape[1] THEN 0
                ELSE mod_weights.num[Flat(mod_weights.shape, m, k, y, x)]
                        + S(m + 1)
    IN S(0)

\* the combined weight of a cell, the sum of the observation weights of all
\* radars plus the model weights, is below 1
Uninfluenced(k, y, x) ==
    /\ \A m \in 0..(mod_weights.shape[1] - 1) :
          Flat(mod_weights.shape, m, k, y, x) \notin mod_weights.nan
    /\ Coverage(weights, k, y, x) * mod_weights.den + ModelSum(k, y, x)
          < mod_weights.den

\* u and v are masked at the uninfluenced cells when mask_outside_opt is set
\* and nowhere otherwise
MaskedUV ==
    \A k \in Levels, y \in Rows, x \in Cols :
        \E n \in {Flat(LevelShape, 0, k, y, x)} :
            /\ result.u_mask[n] = (args.mask_outside_opt /\ Uninfluenced(k, y, x))
            /\ result.v_mask[n] = (args.mask_outside_opt /\ Uninfluenced(k, y, x))

\* C12 as stated: u and v are masked where the combined weight is below 1
\* when mask_outside_opt is set, and w is masked there exactly when
\* mask_w_outside_opt is set, whatever mask_outside_opt is.
C12_MaskWIndependent ==
    pc = "done" =>
        /\ MaskedUV
        /\ \A k \in Levels, y \in Rows, x \in Cols :
              result.w_mask[Flat(LevelShape, 0, k, y, x)]
                 = (args.mask_w_outside_opt /\ Uninfluenced(k, y, x))

\* C12, amended: u and v are masked where the combined weight is below 1
\* when mask_outside_opt is set and nowhere otherwise; w is masked there
\* exactly when mask_outside_opt or mask_w_outside_opt is set.
C12_MaskWUnderEitherOption ==
    pc = "done" =>
        /\ MaskedUV
        /\ \A k \in Levels, y \in Rows, x \in Cols :
              result.w_mask[Flat(LevelShape, 0, k, y, x)]
                 = ((args.mask_outside_opt \/ args.mask_w_outside_opt)
                       /\ Uninfluenced(k, y, x))

C12_Witness ==
    /\ pc = "done"
    /\ args.mask_outside_opt /\ ~args.mask_w_outside_opt
    /\ nRadars = 2
    /\ Uninfluenced(0, 0, 0) /\ result.w_mask[Flat(LevelShape, 0, 0, 0, 0)]
    /\ result.u_mask[Flat(LevelShape, 0, 0, 0, 0)]
    /\ \E k \in Levels, y \in Rows, x \in Cols :
          /\ ~Uninfluenced(k, y, x)
          /\ ~result.w_mask[Flat(LevelShape, 0, k, y, x)]

\* the fine cell n lies outside the coarse nodes on some axis
OutsideCoarse(g, n) ==
    \/ OutOfBounds(CoarseAxes(g)[1], FineAxes(g)[1][LevelOf(FineShape, n)])
    \/ OutOfBounds(CoarseAxes(g)[2], FineAxes(g)[2][RowOf(FineShape, n)])
    \/ OutOfBounds(CoarseAxes(g)[3], FineAxes(g)[3][ColOf(FineShape, n)])

\* the fields a and b hold the same number at cell n
SameAt(a, b, n) ==
    /\ (n \in a.nan) = (n \in b.nan)
    /\ a.num[n] * b.den = b.num[n] * a.den

AfterProlong == pc = "loop" /\ hist.cycles > 0

\* C13 as stated: the prolongation returns NaN at every fine cell outside
\* the coarse nodes, and PROLONG leaves the wind of such a cell unchanged.
C13_NaNOutsideSource ==
    AfterProlong =>
        \A n \in 1..Size(FineShape) :
            OutsideCoarse(Grids[1], n) =>
                /\ n \in wind_add.nan
                /\ SameAt(winds, hist.start, n)

\* the numbers of f at three nodes at distance d along an axis, the first at
\* cell n, lie on a line
Collinear(f, n, d) == f.num[n] + f.num[n + 2 * d] = 2 * f.num[n + d]

\* along every axis the first and the last fine node continue the line
\* through the two nodes next to them
EdgesExtrapolated(f) ==
    \A c \in 0..2, k \in Levels, y \in Rows, x \in Cols :
        /\ k \in {0, NZ - 3} => Collinear(f, Flat(FineShape, c, k, y, x), NY * NX)
        /\ y \in {0, NY - 3} => Collinear(f, Flat(FineShape, c, k, y, x), NX)
        /\ x \in {0, NX - 3} => Collinear(f, Flat(FineShape, c, k, y, x), 1)

\* i is the interval of the nodes g that holds q, or the edge interval on
\* the side of q when q lies outside the nodes
EdgeInterval(g, q, i) ==
    /\ i \in 0..(AxisLen(g) - 2)
    /\ \/ g[i] <= q /\ q <= g[i + 1]
       \/ i = 0 /\ q < g[0]
       \/ i = AxisLen(g) - 2 /\ q > g[AxisLen(g) - 1]

\* the weight, over g[i + 1] - g[i], of node i + b in the line through the
\* nodes i and i + 1 taken at q
LineWeight(g, i, q, b) == IF b = 0 THEN g[i + 1] - q ELSE q - g[i]

\* the numerator, over the product of the three interval lengths, of the
\* trilinear function through the corners of the cell <<iz, iy, ix>> of the
\* last radar's weights, taken at <<qz, qy, qx>>
LastRadarAt(g, iz, iy, ix, qz, qy, qx) ==
    LET T(a, b, e) ==
            LineWeight(FineAxes(g)[1], iz, qz, a)
              * LineWeight(FineAxes(g)[2], iy, qy, b)
              * LineWeight(FineAxes(g)[3], ix, qx, e)
              * weights[Flat(WShape, nRadars - 1, iz + a, iy + b, ix + e)]
    IN T(0, 0, 0) + T(0, 0, 1) + T(0, 1, 0) + T(0, 1, 1)
       + T(1, 0, 0) + T(1, 0, 1) + T(1, 1, 0) + T(1, 1, 1)

IntervalLength(g, i) == g[i + 1] - g[i]

\* the restriction of line 280, whose x midpoints are taken on the y axis and
\* y midpoints on the x axis: every value, in range or not, is the value of
\* the trilinear function of the interval that holds the query or of the
\* edge interval
RestrictedFromEdge(g) ==
    \A k \in DOMAIN CoarseAxes(g)[1], y \in DOMAIN CoarseAxes(g)[2],
       x \in DOMAIN CoarseAxes(g)[3] :
        \A iz \in Levels, iy \in Rows, ix \in Cols :
            ( /\ EdgeInterval(FineAxes(g)[1], CoarseAxes(g)[1][k], iz)
              /\ EdgeInterval(FineAxes(g)[2], CoarseAxes(g)[3][x], iy)
              /\ EdgeInterval(FineAxes(g)[3], CoarseAxes(g)[2][y], ix) )
            => bg_weights_coarse.num[Flat(bg_weights_coarse.shape, 0, k, y, x)]
                  * IntervalLength(FineAxes(g)[1], iz)
                  * IntervalLength(FineAxes(g)[2], iy)
                  * IntervalLength(FineAxes(g)[3], ix)
               = bg_weights_coarse.den
                  * LastRadarAt(g, iz, iy, ix, CoarseAxes(g)[1][k],
                                CoarseAxes(g)[3][x], CoarseAxes(g)[2][y])

\* a query of the restriction of line 280 lies outside the fine nodes
RestrictionQueryOutside(g) ==
    \/ \E x \in DOMAIN CoarseAxes(g)[3] :
          OutOfBounds(FineAxes(g)[2], CoarseAxes(g)[3][x])
    \/ \E y \in DOMAIN CoarseAxes(g)[2] :
          OutOfBounds(FineAxes(g)[3], CoarseAxes(g)[2][y])

\* C13, amended: a restriction or prolongation query outside the source
\* nodes gets the value extrapolated linearly from the edge interval, never
\* NaN; PROLONG adds the extrapolated correction to the wind of a fine cell
\* outside the coarse nodes.
C13_ExtrapolatedOutsideSource ==
    /\ (bg_weights_coarse # Unset /\ args.model_fields = 0) =>
          /\ weights_coarse.nan = {} /\ bg_weights_coarse.nan = {}
          /\ RestrictedFromEdge(Grids[1])
    /\ AfterProlong =>
          /\ winds_coarse.nan = {} /\ wind_add.nan = {}
          /\ EdgesExtrapolated(wind_add)
          /\ FieldIsSum(winds, hist.start, wind_add)

C13_Witness ==
    /\ AfterProlong
    /\ env.solver = "corner"
    /\ OutsideCoarse(Grids[1], 1)
    /\ 1 \notin wind_add.nan /\ wind_add.num[1] > 0
    /\ ~SameAt(winds, hist.start, 1)
    /\ ~IsZeroField(FieldSub(winds_coarse1, winds_coarse))
    /\ RestrictionQueryOutside(Grids[1])
    /\ env.mask[nRadars] = "patchy"
    /\ \E n \in 1..Len(bg_weights_coarse.num) :
          bg_weights_coarse.num[n] > bg_weights_coarse.den
    /\ \E n \in 1..Len(bg_weights_coarse.num) : bg_weights_coarse.num[n] < 0


====
